---- MODULE Spec2Model ----
(***************************************************************************)
(* A model of pkpdbuilder's tool-calling agent loop (agent.js), its tool   *)
(* registry (tools/registry.ts), its REPL (repl.js), its command line      *)
(* (index.ts, config.ts), its two R subprocess bridges (mcp-server.ts and  *)
(* r-bridge.js), its provider adapters (providers/anthropic.js, openai.ts, *)
(* google.ts, ollama.js), its memory tools (tools/memory.ts) and the       *)
(* load_dataset tool (tools/data.js).                                      *)
(*                                                                         *)
(* In the agent loop texts are numbers: 0 is the empty string '', n > 0 is *)
(* a non-empty text.                                                       *)
(***************************************************************************)
EXTENDS Integers, Sequences, FiniteSets, TLC

VARIABLES
    maxIterations,  \* agent.maxIterations
    messages,       \* agent.messages
    pc,             \* where the REPL is: at its "prompt", or in agent.run() at the
                    \* awaited "provider" call or "tool" call, or after run()
                    \* "returned" or "threw"
    iterations,     \* run(): let iterations
    finalResponse,  \* run(): let finalResponse
    calls,          \* run(): response.tool_calls of the current round
    idx,            \* run(): position of the for-of loop in calls
    lastExec,       \* the turn's last executeTool call: name, handler invoked, outcome
    turn,           \* observation of the current turn of run()
    outcome,        \* how the last run() ended
    console,        \* what the REPL printed last after a turn
    turns,          \* number of run() calls so far
    asked,          \* number of tool calls the provider has asked for at will
    rInstalled,     \* whether an Rscript executable can be located
    bpc,            \* where runRScript is: "idle", "spawned", "returned"
    files,          \* the files of os.tmpdir(): records of path and content
    now,            \* Date.now()
    inv,            \* the runRScript invocation: bridge, script, temp files
    ret,            \* what the last runRScript call settled to
    invocations,    \* number of runRScript calls so far
    toolResult,     \* what load_dataset returned after its runRScript call
    flights,        \* the MCP server's bridge calls in flight, by request
    stream,         \* a provider adapter's stream() or chat() call: its locals,
                    \* the chunks given to onChunk, what the vendor sent, and
                    \* what the call settled to
    TOOL_DEFINITIONS,   \* registry.ts: the array of tool definitions
    TOOL_HANDLERS,      \* registry.ts: the Map from tool name to handler
    memoryFile,     \* .pkpdbuilder/memory.json
    memLog,         \* the last two calls of the memory tools and what the
                    \* last one returned
    writers,        \* the MCP server's memory_write and init_project
                    \* requests: what each asked for and how far it is
    cli             \* a pkpdbuilder process: its environment, the stored
                    \* config, the command it was started with, the agent it
                    \* constructed, the provider calls made, how it ended

agentVars == <<maxIterations, messages, pc, iterations, finalResponse, calls,
               idx, lastExec, turn, outcome, console, turns, asked>>
bridgeVars == <<rInstalled, bpc, files, now, inv, ret, invocations, toolResult>>
serverVars == <<flights>>
streamVars == <<stream>>
registryVars == <<TOOL_DEFINITIONS, TOOL_HANDLERS>>
memoryVars == <<memoryFile, memLog>>
cliVars == <<cli>>
writerVars == <<writers>>
restVars == <<serverVars, streamVars, registryVars, memoryVars, cliVars,
              writerVars>>
\* what the MCP server's bridge calls leave alone besides the bridge's variables
offServerVars == <<agentVars, streamVars, registryVars, memoryVars, cliVars,
                   writerVars>>
\* what a provider adapter call leaves alone
offStreamVars == <<agentVars, bridgeVars, serverVars, registryVars, memoryVars,
                   cliVars, writerVars>>
\* what a registration leaves alone
offRegistryVars == <<agentVars, bridgeVars, serverVars, streamVars, memoryVars,
                     cliVars, writerVars>>
\* what a memory tool leaves alone
offMemoryVars == <<agentVars, bridgeVars, serverVars, streamVars, registryVars,
                   cliVars, writerVars>>
\* what a command of the CLI leaves alone
offCliVars == <<agentVars, bridgeVars, serverVars, streamVars, registryVars,
                memoryVars, writerVars>>
\* what a memory request of the MCP server leaves alone besides the file
offWriterVars == <<agentVars, bridgeVars, serverVars, streamVars, registryVars,
                   memLog, cliVars>>
vars == <<agentVars, bridgeVars, restVars>>

----------------------------------------------------------------------------
(* Bounds of the model *)

\* options.maxIterations is drawn from 0 (absent) .. MaxIterOpt
MaxIterOpt == 2
\* the provider's responses of a session carry at most MaxCalls tool calls
\* chosen at will, with any text; once it has asked for that many, a response
\* that asks for more asks for the one call LateCall, with empty text, whose
\* handler returns or rejects
MaxCalls == 2
\* run() is called at most MaxTurns times
MaxTurns == 2
\* a further turn starts only on a history of at most MaxCarry messages
MaxCarry == 1

\* runRScript is called at most MaxInvocations times
MaxInvocations == 3

\* options.maxIterations || 10
DefaultMaxIterations == 10

----------------------------------------------------------------------------
(* Tool registry: tools/registry.ts *)

\* keys of TOOL_HANDLERS (one registered tool stands for all of them)
Registered == {"echo"}
\* names a model may ask for: a registered one and one that is not
CallNames == Registered \cup {"nope"}

\* what a handler does when it is awaited
HandlerOutcomes ==
    { [how |-> "return", msg |-> ""],
      [how |-> "throwError", msg |-> "failed"],
      [how |-> "throwString", msg |-> "failed"],
      [how |-> "rejectNull", msg |-> ""],
      [how |-> "rejectUndefined", msg |-> ""] }

Resolved(success, error) ==
    [kind |-> "resolved", success |-> success, error |-> error]
Rejected(error) ==
    [kind |-> "rejected", success |-> FALSE, error |-> error]
NoResult == [kind |-> "none", success |-> FALSE, error |-> ""]

\* catch (error) { return { success: false, error: error.message || String(error) } }
CatchHandlerError(h) ==
    CASE h.how = "throwError" ->
            \* new Error(m).message is m; String(new Error('')) is "Error"
            Resolved(FALSE, IF h.msg # "" THEN h.msg ELSE "Error")
      [] h.how = "throwString" ->
            \* 'm'.message is undefined, String('m') is m
            Resolved(FALSE, h.msg)
      [] OTHER ->
            \* null.message and undefined.message throw a TypeError inside
            \* the catch block, so the promise of executeTool rejects
            Rejected("TypeError")

\* a mutant of executeTool: no lookup failure, every name is dispatched
executeToolNoLookup(name, h) ==
    [invoked |-> TRUE,
     res |-> IF h.how = "return" THEN Resolved(TRUE, "") ELSE CatchHandlerError(h)]

\* executeTool(name, args), with h what the handler does if it is called:
\* the value the promise settles to, and whether a handler was invoked
executeTool(name, h) ==
    IF name \notin Registered
    THEN [invoked |-> FALSE, res |-> Resolved(FALSE, "Unknown tool: " \o name)]
    ELSE [invoked |-> TRUE,
          res |-> IF h.how = "return" THEN Resolved(TRUE, "")
                  ELSE CatchHandlerError(h)]

----------------------------------------------------------------------------
(* Agent: agent.js *)

TextContent(t) == [kind |-> "text", text |-> t, name |-> "", result |-> NoResult]
\* `Tool "${name}" returned:\n${JSON.stringify(result, null, 2)}`
ToolContent(name, result) ==
    [kind |-> "tool", text |-> 0, name |-> name, result |-> result]

\* what the user types at the prompt
UserInput == TextContent(1)

\* a mutant of addUserMessage: the new message replaces the last one
addUserMessageOverwrite(msgs, content) ==
    IF msgs = <<>> THEN <<[role |-> "user", content |-> content]>>
    ELSE [msgs EXCEPT ![Len(msgs)] = [role |-> "user", content |-> content]]

addUserMessage(msgs, content) ==
    Append(msgs, [role |-> "user", content |-> content])

addAssistantMessage(msgs, content) ==
    Append(msgs, [role |-> "assistant", content |-> content])

\* a mutant of LoopContinues: one round too many
LoopContinuesOffByOne(it, max) == it <= max

\* while (iterations < this.maxIterations)
LoopContinues(it, max) == it < max

\* if (iterations >= this.maxIterations) finalResponse += warning; return finalResponse
RunResult(fr, it, max) == [text |-> fr, warning |-> it >= max]

\* a mutant of NextFinalResponse: every response text replaces finalResponse
NextFinalResponseAlways(fr, content) == content

\* if (response.content) finalResponse = response.content
NextFinalResponse(fr, content) == IF content # 0 THEN content ELSE fr

\* a mutant of RecordAssistant: the response text is appended even when empty
RecordAssistantAlways(msgs, content) ==
    addAssistantMessage(msgs, TextContent(content))

\* if (response.content) this.addAssistantMessage(response.content)
RecordAssistant(msgs, content) ==
    IF content # 0 THEN addAssistantMessage(msgs, TextContent(content)) ELSE msgs

\* this.maxIterations = options.maxIterations || 10
ResolveMaxIterations(opt) == IF opt # 0 THEN opt ELSE DefaultMaxIterations

\* tool_calls of a response: at most n names, in the order returned
CallLists(n) ==
    UNION { [1..k -> CallNames] : k \in 0..n }
\* the call a model keeps asking for
LateCall == "echo"
LateResponse == [content |-> 0, tool_calls |-> <<LateCall>>]

\* the responses the provider may give in round it, having asked for n calls
ProviderResponses(it, n) ==
    [content : {0, it}, tool_calls : CallLists(MaxCalls - n)]
    \cup (IF n >= MaxCalls THEN {LateResponse} ELSE {})

\* what the handler of a call may do
OutcomesIn(late) ==
    IF late
    THEN { h \in HandlerOutcomes : h.how \in {"return", "rejectNull", "rejectUndefined"} }
    ELSE HandlerOutcomes

ProviderError == "provider error"

\* what is observed of a turn: where its user message is in the history, the
\* provider calls made, the responses received, whether a provider call
\* rejected; and, since the last response, the names executeTool was called
\* with, the names whose result was appended to the history and the results
\* whose JSON text (its first 200 characters) was written to onStream
NoTurn == [start |-> 0, providerCalls |-> 0, responses |-> <<>>,
           execLog |-> <<>>, appended |-> <<>>, providerRejected |-> FALSE,
           late |-> FALSE, streamed |-> <<>>]
NoExec == [name |-> "", invoked |-> FALSE, res |-> NoResult]
NoOutcome == [kind |-> "none", text |-> 0, warning |-> FALSE, error |-> ""]
ReturnedOutcome(v) ==
    [kind |-> "returned", text |-> v.text, warning |-> v.warning, error |-> ""]
RejectedOutcome(e) ==
    [kind |-> "rejected", text |-> 0, warning |-> FALSE, error |-> e]


\* return finalResponse: the promise of run() resolves
Return(fr, it) ==
    /\ pc' = "returned"
    /\ outcome' = ReturnedOutcome(RunResult(fr, it, maxIterations))
    /\ UNCHANGED console

\* an awaited call rejects and nothing in run() catches it: run() rejects
Throw(e) ==
    /\ pc' = "threw"
    /\ outcome' = RejectedOutcome(e)
    /\ UNCHANGED console

\* the head of the while loop, reached with history msgs: the next round's
\* provider call, or the end of the loop
LoopHead(msgs, fr, t) ==
    IF LoopContinues(iterations, maxIterations)
    THEN /\ iterations' = iterations + 1
         /\ pc' = "provider"
         /\ turn' = [t EXCEPT !.providerCalls = @ + 1]
         /\ UNCHANGED <<outcome, console>>
    ELSE /\ Return(fr, iterations)
         /\ turn' = t
         /\ UNCHANGED iterations

\* the REPL reads a line that is no slash command and prints an empty line:
\* agent.run(trimmed) up to the first awaited provider call
RunStart ==
    /\ pc = "prompt"
    /\ turns < MaxTurns
    /\ Len(messages) <= MaxCarry
    /\ turns' = turns + 1
    /\ console' = ""
    /\ messages' = addUserMessage(messages, UserInput)
    /\ finalResponse' = 0
    /\ calls' = <<>>
    /\ idx' = 0
    /\ lastExec' = NoExec
    /\ IF LoopContinues(0, maxIterations)
       THEN /\ iterations' = 1
            /\ pc' = "provider"
            /\ outcome' = NoOutcome
            /\ turn' = [NoTurn EXCEPT !.start = Len(messages) + 1,
                                      !.providerCalls = 1]
       ELSE /\ iterations' = 0
            /\ pc' = "returned"
            /\ outcome' = ReturnedOutcome(RunResult(0, 0, maxIterations))
            /\ turn' = [NoTurn EXCEPT !.start = Len(messages) + 1]
    /\ UNCHANGED <<maxIterations, asked, bridgeVars, restVars>>

\* provider.stream / provider.chat resolves with a response
ProviderResolves ==
    /\ pc = "provider"
    /\ \E r \in ProviderResponses(iterations, asked) :
         LET msgs == RecordAssistant(messages, r.content)
             fr == NextFinalResponse(finalResponse, r.content)
             late == asked >= MaxCalls /\ r.tool_calls # <<>>
             t == [turn EXCEPT !.responses = Append(@, r),
                               !.execLog = <<>>, !.appended = <<>>,
                               !.late = late, !.streamed = <<>>]
         IN /\ messages' = msgs
            /\ asked' = IF late THEN asked ELSE asked + Len(r.tool_calls)
            /\ finalResponse' = fr
            /\ calls' = r.tool_calls
            /\ IF r.tool_calls = <<>>
               THEN \* break
                    /\ Return(fr, iterations)
                    /\ turn' = t
                    /\ UNCHANGED <<idx, iterations>>
               ELSE \* the for-of loop starts: executeTool for the first call
                    /\ pc' = "tool"
                    /\ idx' = 1
                    /\ turn' = [t EXCEPT !.execLog = <<r.tool_calls[1]>>]
                    /\ UNCHANGED <<iterations, outcome, console>>
    /\ UNCHANGED <<maxIterations, lastExec, turns, bridgeVars, restVars>>

\* a mutant of ProviderRejects: the messages of the failed turn are dropped
ProviderRejectsRollback ==
    /\ pc = "provider"
    /\ Throw(ProviderError)
    /\ turn' = [turn EXCEPT !.providerRejected = TRUE]
    /\ messages' = SubSeq(messages, 1, turn.start - 1)
    /\ UNCHANGED <<maxIterations, iterations, finalResponse, calls,
                   idx, lastExec, turns, asked, bridgeVars, restVars>>

\* a mutant of ProviderRejects: the failed provider call is made again
ProviderRejectsRetry ==
    /\ pc = "provider"
    /\ turn.providerCalls <= maxIterations
    /\ turn' = [turn EXCEPT !.providerRejected = TRUE, !.providerCalls = @ + 1]
    /\ UNCHANGED <<maxIterations, messages, pc, iterations, finalResponse, calls,
                   idx, lastExec, outcome, console, turns, asked, bridgeVars, restVars>>

\* provider.stream / provider.chat rejects: nothing in run() catches it
ProviderRejects ==
    /\ pc = "provider"
    /\ Throw(ProviderError)
    /\ turn' = [turn EXCEPT !.providerRejected = TRUE]
    /\ UNCHANGED <<maxIterations, messages, iterations, finalResponse, calls,
                   idx, lastExec, turns, asked, bridgeVars, restVars>>

\* the awaited executeTool(toolCall.name, toolCall.arguments) settles
ToolSettles ==
    /\ pc = "tool"
    /\ \E h \in OutcomesIn(turn.late) :
         LET name == calls[idx]
             e == executeTool(name, h)
         IN /\ lastExec' = [name |-> name, invoked |-> e.invoked, res |-> e.res]
            /\ IF e.res.kind = "rejected"
               THEN \* the await throws out of run()
                    /\ Throw(e.res.error)
                    /\ UNCHANGED <<messages, idx, iterations, turn>>
               ELSE LET msgs == addUserMessage(messages, ToolContent(name, e.res))
                        t == [turn EXCEPT !.appended = Append(@, name),
                                          !.streamed = Append(@, e.res)]
                    IN /\ messages' = msgs
                       /\ IF idx < Len(calls)
                          THEN /\ idx' = idx + 1
                               /\ turn' = [t EXCEPT !.execLog = Append(@, calls[idx + 1])]
                               /\ UNCHANGED <<pc, iterations, outcome, console>>
                          ELSE /\ LoopHead(msgs, finalResponse, t)
                               /\ UNCHANGED idx
    /\ UNCHANGED <<maxIterations, finalResponse, calls, turns, asked, bridgeVars, restVars>>

\* the REPL after await agent.run(trimmed): a newline, or the catch block's
\* error line; then the while (true) loop prompts again
ReplReports ==
    /\ pc \in {"returned", "threw"}
    /\ console' = IF pc = "threw" THEN "Error: " \o outcome.error ELSE "newline"
    /\ pc' = "prompt"
    /\ UNCHANGED <<maxIterations, messages, iterations, finalResponse, calls,
                   idx, lastExec, turn, outcome, turns, asked, bridgeVars, restVars>>

\* the REPL reads /clear: agent.clearHistory()
ClearHistory ==
    /\ pc = "prompt"
    /\ messages # <<>>
    /\ messages' = <<>>
    /\ UNCHANGED <<maxIterations, pc, iterations, finalResponse, calls, idx,
                   lastExec, turn, outcome, console, turns, asked, bridgeVars, restVars>>


----------------------------------------------------------------------------
(* R bridges: runRScript of mcp-server.ts (temp file paths passed in the    *)
(* environment) and runRScript of r-bridge.js (paths passed as arguments)   *)

\* the scripts a tool asks for: one that is in the scripts directory, one not
Scripts == {"fit_nlmixr2.R", "missing.R"}
ExistingScripts == {"fit_nlmixr2.R"}
\* Math.random().toString(36).slice(2)
Rands == {1, 2}
\* what the R process leaves in the result file if it writes one
ResultContents == {"json", "garbage"}
\* how the child process ends; "enoent" is a spawn that finds no executable
ProcessEndings == {"exit0", "nonzero", "timeout", "enoent"}
\* stderr captured from the child process
Stderrs == {"", "Error in fit"}

NoPath == [kind |-> "", stamp |-> 0, rand |-> 0]
\* lookedUp: the interpreter has been looked for (findRscript, getRscriptPath);
\* how: the way the child process ended, "" while none has
NoInv == [bridge |-> "", script |-> "", argsFile |-> NoPath,
          resultFile |-> NoPath, wrote |-> FALSE, lookedUp |-> FALSE,
          how |-> ""]
NoRet == [kind |-> "none", success |-> FALSE, error |-> "", message |-> "",
          result |-> ""]
\* a resolved promise: the object runRScript returns
Envelope(success, error, message, result) ==
    [kind |-> "resolved", success |-> success, error |-> error,
     message |-> message, result |-> result]
\* a rejected promise
BridgeThrows(error) ==
    [kind |-> "rejected", success |-> FALSE, error |-> error, message |-> "",
     result |-> ""]

Paths(fs) == { f.path : f \in fs }
\* existsSync(p)
existsSync(fs, p) == p \in Paths(fs)
\* readFileSync(p, 'utf-8') of a file that exists
readFileSync(fs, p) == (CHOOSE f \in fs : f.path = p).content
\* writeFileSync(p, content): creates the file or replaces its content
writeFileSync(fs, p, content) ==
    { f \in fs : f.path # p } \cup { [path |-> p, content |-> content] }
\* unlinkSync(p) with its failure ignored (try {...} catch {})
unlinkSync(fs, p) == { f \in fs : f.path # p }

\* mcp-server.ts: join(tmpdir(), `pkpd_args_${Date.now()}.json`)
McpArgsFile(t) == [kind |-> "pkpd_args", stamp |-> t, rand |-> 0]
\* mcp-server.ts: join(tmpdir(), `pkpd_result_${Date.now()}.json`)
McpResultFile(t) == [kind |-> "pkpd_result", stamp |-> t, rand |-> 0]
\* r-bridge.js: `pkpdbuilder_${Date.now()}_${random}_input.json`
ArgvInputFile(t, r) == [kind |-> "pkpdbuilder_input", stamp |-> t, rand |-> r]
\* r-bridge.js: `pkpdbuilder_${Date.now()}_${random}_output.json`
ArgvOutputFile(t, r) == [kind |-> "pkpdbuilder_output", stamp |-> t, rand |-> r]

\* stderr || error.message
McpErrorText(how, stderr) ==
    IF stderr # "" THEN stderr
    ELSE IF how = "timeout" THEN "Command failed (killed)"
    ELSE IF how = "enoent" THEN "spawn Rscript ENOENT"
    ELSE "Command failed"

\* err.message
ArgvErrorText(how) ==
    IF how = "timeout" THEN "Command failed (killed)"
    ELSE IF how = "enoent" THEN "spawn Rscript ENOENT"
    ELSE "Command failed"

\* a callback that reads the result file before it looks at the error
McpCallbackResultFirst(fs, i, how, stderr) ==
    LET fs1 == unlinkSync(fs, i.argsFile)
    IN IF existsSync(fs1, i.resultFile) /\ readFileSync(fs1, i.resultFile) = "json"
       THEN [files |-> unlinkSync(fs1, i.resultFile),
             ret |-> Envelope(TRUE, "", "", "parsed")]
       ELSE [files |-> unlinkSync(fs1, i.resultFile),
             ret |-> Envelope(how = "exit0", McpErrorText(how, stderr), "", "")]

\* mcp-server.ts: the callback of execFile in runRScript; the files it leaves
\* in the temp directory and the value it resolves the promise with
McpCallback(fs, i, how, stderr) ==
    LET fs1 == unlinkSync(fs, i.argsFile)
    IN IF how # "exit0"
       THEN [files |-> unlinkSync(fs1, i.resultFile),
             ret |-> Envelope(FALSE, McpErrorText(how, stderr), "", "")]
       ELSE IF existsSync(fs1, i.resultFile)
            THEN IF readFileSync(fs1, i.resultFile) = "json"
                 THEN \* JSON.parse succeeds; unlinkSync(resultFile)
                      [files |-> unlinkSync(fs1, i.resultFile),
                       ret |-> Envelope(TRUE, "", "", "parsed")]
                 ELSE \* JSON.parse throws before unlinkSync(resultFile)
                      [files |-> fs1,
                       ret |-> Envelope(TRUE, "", "Script completed.", "")]
            ELSE [files |-> fs1,
                  ret |-> Envelope(TRUE, "", "Script completed (no structured output).", "")]

\* r-bridge.js: runRScript after the awaited execFileAsync settles: the try
\* block's return or the catch block's, then the finally block's cleanup
ArgvSettle(fs, i, how, stderr) ==
    LET cleaned ==
            LET fs1 == IF existsSync(fs, i.argsFile)
                       THEN unlinkSync(fs, i.argsFile) ELSE fs
            IN IF existsSync(fs1, i.resultFile)
               THEN unlinkSync(fs1, i.resultFile) ELSE fs1
    IN IF how # "exit0"
       THEN [files |-> cleaned, ret |-> Envelope(FALSE, ArgvErrorText(how), "", "")]
       ELSE IF existsSync(fs, i.resultFile)
            THEN IF readFileSync(fs, i.resultFile) = "json"
                 THEN [files |-> cleaned, ret |-> Envelope(TRUE, "", "", "parsed")]
                 ELSE [files |-> cleaned,
                       ret |-> Envelope(TRUE, "", "", "Failed to parse R output JSON")]
            ELSE [files |-> cleaned, ret |-> Envelope(TRUE, "", "", "")]

\* a value a tool handler returns: hasSuccess says whether the object has a
\* success key
NoToolResult == [kind |-> "none", hasSuccess |-> FALSE, success |-> FALSE,
                 error |-> ""]
ToolReturns(hasSuccess, success, error) ==
    [kind |-> "resolved", hasSuccess |-> hasSuccess, success |-> success,
     error |-> error]

\* tools/data.js: loadDataset after its awaited runRScript returned r.
\* r.result is truthy when it is the parsed object or the parse-failure object
\* and falsy when it is undefined; the R code of load_dataset writes a success
\* key in every object it writes; r.stderr is not kept by the model
loadDataset(r) ==
    IF r.success /\ r.result # ""
    THEN IF r.result = "parsed"
         THEN ToolReturns(TRUE, TRUE, "")
         ELSE \* return result.result, which is { error: '...' }
              ToolReturns(FALSE, FALSE, r.result)
    ELSE ToolReturns(TRUE, FALSE, "Failed to load dataset")

\* mcp-server.ts: runRScript(scriptName, args) up to the execFile call
RunRScriptMcp ==
    /\ bpc = "idle"
    /\ invocations < MaxInvocations
    /\ invocations' = invocations + 1
    /\ \E script \in Scripts :
        IF script \notin ExistingScripts
        THEN /\ ret' = Envelope(FALSE, "R script not found: " \o script, "", "")
             /\ inv' = [NoInv EXCEPT !.bridge = "mcp", !.script = script]
             /\ bpc' = "returned"
             /\ UNCHANGED files
        ELSE IF ~rInstalled
        THEN \* findRscript() throws
             /\ ret' = BridgeThrows("Rscript not found. Install R from https://cran.r-project.org")
             /\ inv' = [NoInv EXCEPT !.bridge = "mcp", !.script = script,
                                     !.lookedUp = TRUE]
             /\ bpc' = "returned"
             /\ UNCHANGED files
        ELSE /\ inv' = [NoInv EXCEPT !.bridge = "mcp", !.script = script,
                                     !.lookedUp = TRUE,
                                     !.argsFile = McpArgsFile(now),
                                     !.resultFile = McpResultFile(now)]
             /\ files' = writeFileSync(files, McpArgsFile(now), "args")
             /\ bpc' = "spawned"
             /\ UNCHANGED ret
    /\ toolResult' = NoToolResult
    /\ UNCHANGED <<rInstalled, now, agentVars, restVars>>

\* r-bridge.js: runRScript(scriptPath, args) up to the awaited execFileAsync
RunRScriptArgv ==
    /\ bpc = "idle"
    /\ invocations < MaxInvocations
    /\ invocations' = invocations + 1
    /\ \E script \in Scripts, r \in Rands :
        IF script \notin ExistingScripts
        THEN \* getRscriptPath() has run before the script is looked at
             /\ ret' = Envelope(FALSE, "Script not found: " \o script, "", "")
             /\ inv' = [NoInv EXCEPT !.bridge = "argv", !.script = script,
                                     !.lookedUp = TRUE]
             /\ bpc' = "returned"
             /\ UNCHANGED files
        ELSE /\ inv' = [NoInv EXCEPT !.bridge = "argv", !.script = script,
                                     !.lookedUp = TRUE,
                                     !.argsFile = ArgvInputFile(now, r),
                                     !.resultFile = ArgvOutputFile(now, r)]
             /\ files' = writeFileSync(files, ArgvInputFile(now, r), "args")
             /\ bpc' = "spawned"
             /\ UNCHANGED ret
    /\ toolResult' = NoToolResult
    /\ UNCHANGED <<rInstalled, now, agentVars, restVars>>

\* the R process writes the result file it was given the path of
RWritesResult ==
    /\ bpc = "spawned"
    /\ rInstalled
    /\ ~inv.wrote
    /\ \E c \in ResultContents : files' = writeFileSync(files, inv.resultFile, c)
    /\ inv' = [inv EXCEPT !.wrote = TRUE]
    /\ UNCHANGED <<rInstalled, bpc, now, ret, invocations, toolResult, agentVars,
                   restVars>>

\* the child process ends (or could not be spawned) and runRScript settles
ProcessEnds ==
    /\ bpc = "spawned"
    /\ \E how \in ProcessEndings, stderr \in Stderrs :
        /\ (how = "enoent") <=> ~rInstalled
        /\ (how = "exit0") => stderr = ""
        /\ LET out == IF inv.bridge = "mcp"
                      THEN McpCallback(files, inv, how, stderr)
                      ELSE ArgvSettle(files, inv, how, stderr)
           IN /\ files' = out.files
              /\ ret' = out.ret
        /\ inv' = [inv EXCEPT !.how = how]
    /\ bpc' = "returned"
    /\ now' = now + 1
    /\ UNCHANGED <<rInstalled, invocations, toolResult, agentVars, restVars>>

\* the caller of runRScript goes on with what it returned; the caller of the
\* r-bridge.js one is a tool handler, here loadDataset of tools/data.js
BridgeResumes ==
    /\ bpc = "returned"
    /\ bpc' = "idle"
    /\ toolResult' = IF inv.bridge = "argv" THEN loadDataset(ret) ELSE NoToolResult
    /\ UNCHANGED <<rInstalled, files, now, inv, ret, invocations, agentVars, restVars>>

BridgeIdle ==
    /\ bpc = "idle" /\ files = {} /\ now = 0
    /\ inv = NoInv /\ ret = NoRet /\ invocations = 0
    /\ toolResult = NoToolResult

\* the agent as constructed with its defaults, at the prompt
AgentIdle ==
    /\ maxIterations = DefaultMaxIterations
    /\ messages = <<>> /\ pc = "prompt" /\ iterations = 0 /\ finalResponse = 0
    /\ calls = <<>> /\ idx = 0 /\ lastExec = NoExec /\ turn = NoTurn
    /\ outcome = NoOutcome /\ console = "" /\ turns = 0 /\ asked = 0

----------------------------------------------------------------------------
(* The MCP server of mcp-server.ts serving tool requests concurrently: each *)
(* request runs runRScript or runRCode, whose execFile callbacks run later  *)

\* the requests the server gets
MaxRequests == 2
Requests == 1..MaxRequests
\* the milliseconds Date.now() advances by while the requests are served
MaxClock == 1

\* mcp-server.ts: join(tmpdir(), `pkpd_code_${Date.now()}.R`)
McpCodeFile(t) == [kind |-> "pkpd_code", stamp |-> t, rand |-> 0]

\* a request's bridge call: the function called, where it is, its temp files
NoFlight == [fn |-> "", at |-> "idle", inv |-> NoInv]

\* the temp file paths of a bridge call
TempPaths(f) == {f.inv.argsFile, f.inv.resultFile} \ {NoPath}

\* Date.now() moves on
ClockTicks ==
    /\ now < MaxClock
    /\ now' = now + 1
    /\ UNCHANGED <<offServerVars, rInstalled, bpc, files, inv, ret, invocations,
                   toolResult, flights>>

\* mcp-server.ts: runRScript of an existing script up to the execFile call
ServerRunRScript(j) ==
    /\ flights[j].at = "idle"
    /\ flights' = [flights EXCEPT ![j] =
                      [fn |-> "runRScript", at |-> "spawned",
                       inv |-> [NoInv EXCEPT !.bridge = "mcp",
                                             !.script = "fit_nlmixr2.R",
                                             !.lookedUp = TRUE,
                                             !.argsFile = McpArgsFile(now),
                                             !.resultFile = McpResultFile(now)]]]
    /\ files' = writeFileSync(files, McpArgsFile(now), "args")
    /\ UNCHANGED <<offServerVars, rInstalled, bpc, now, inv, ret, invocations,
                   toolResult>>

\* mcp-server.ts: runRCode up to the execFile call; the code file is kept in
\* the argsFile field of the record
ServerRunRCode(j) ==
    /\ flights[j].at = "idle"
    /\ flights' = [flights EXCEPT ![j] =
                      [fn |-> "runRCode", at |-> "spawned",
                       inv |-> [NoInv EXCEPT !.bridge = "mcp",
                                             !.lookedUp = TRUE,
                                             !.argsFile = McpCodeFile(now)]]]
    /\ files' = writeFileSync(files, McpCodeFile(now), "code")
    /\ UNCHANGED <<offServerVars, rInstalled, bpc, now, inv, ret, invocations,
                   toolResult>>

\* the R process of a runRScript call writes the result file it was told
ServerRWritesResult(j) ==
    /\ flights[j].at = "spawned"
    /\ flights[j].fn = "runRScript"
    /\ ~flights[j].inv.wrote
    /\ \E c \in ResultContents :
          files' = writeFileSync(files, flights[j].inv.resultFile, c)
    /\ flights' = [flights EXCEPT ![j].inv.wrote = TRUE]
    /\ UNCHANGED <<offServerVars, rInstalled, bpc, now, inv, ret, invocations,
                   toolResult>>

\* the execFile callback of a call runs: runRScript's is McpCallback,
\* runRCode's unlinks the code file
ServerCallback(j) ==
    /\ flights[j].at = "spawned"
    /\ \E how \in {"exit0", "nonzero"} :
          /\ files' = IF flights[j].fn = "runRScript"
                      THEN McpCallback(files, flights[j].inv, how, "").files
                      ELSE unlinkSync(files, flights[j].inv.argsFile)
          /\ flights' = [flights EXCEPT ![j].at = "done", ![j].inv.how = how]
    /\ UNCHANGED <<offServerVars, rInstalled, bpc, now, inv, ret, invocations,
                   toolResult>>

----------------------------------------------------------------------------
(* Provider adapters: stream() of AnthropicProvider (providers/anthropic.js), *)
(* of OpenAIProvider (providers/openai.ts), of GoogleProvider               *)
(* (providers/google.ts) and of OllamaProvider (providers/ollama.js), and   *)
(* chat() of OpenAIProvider.                                                *)
(* A JSON text is a string; a parsed JSON object is written as its text;    *)
(* the text of a response is a string.                                      *)

Providers == {"anthropic", "openai", "google", "ollama"}
\* the events, chunks or lines a vendor sends in one response
MaxEvents == 4
\* the tool calls of one response
MaxToolCalls == 2
ToolIds == 1..MaxToolCalls
\* the pieces a vendor cuts a tool call's argument text into
ArgFragments == {"{\"dose\":", "100}", "{}"}
\* the texts JSON.parse accepts
ValidJson == {"{}", "{\"dose\":100}"}
\* the argument strings of a tool call in a complete (not streamed) response
ArgStrings == ValidJson \cup {"{\"dose\":"}
\* arguments: {}
EmptyObject == "{}"
\* the non-empty pieces of text a vendor sends
TextPieces == {"a", "b"}

\* JSON.parse(str): ok is FALSE where it throws a SyntaxError
JSONparse(str) ==
    IF str \in ValidJson THEN [ok |-> TRUE, value |-> str]
    ELSE [ok |-> FALSE, value |-> ""]

NoCall == [id |-> 0, name |-> "", arguments |-> "", partial |-> ""]
\* a ToolCall { id, name, arguments }; partial is arguments._partial
ToolCall(id, arguments, partial) ==
    [id |-> id, name |-> "echo", arguments |-> arguments, partial |-> partial]

\* the chunks given to onChunk
ContentChunk(c) == [type |-> "content", content |-> c, tool_call |-> NoCall]
ToolCallChunk(tc) == [type |-> "tool_call", content |-> "", tool_call |-> tc]
DoneChunk == [type |-> "done", content |-> "", tool_call |-> NoCall]

NoChatResponse == [kind |-> "none", content |-> "", tool_calls |-> <<>>]
\* the ChatResponse a call returns; tool_calls <<>> is undefined
ChatResponse(content, tool_calls) ==
    [kind |-> "resolved", content |-> content, tool_calls |-> tool_calls]
\* the call rejects (JSON.parse threw outside a try block)
ChatRejects == [kind |-> "rejected", content |-> "", tool_calls |-> <<>>]

\* received[id]: the argument text the vendor has sent for tool call id so far;
\* badLine: the vendor has sent a line that is not JSON
NoStream ==
    [provider |-> "", api |-> "", at |-> "idle", events |-> 0,
     textContent |-> "", currentToolCall |-> NoCall, toolCalls |-> <<>>,
     chunks |-> <<>>, received |-> [i \in ToolIds |-> ""], badLine |-> FALSE,
     ret |-> NoChatResponse]

\* the agent calls provider.stream(messages, tools, onChunk)
StreamOpens ==
    /\ stream.at = "idle"
    /\ \E p \in Providers :
          stream' = [stream EXCEPT !.provider = p, !.api = "stream", !.at = "open"]
    /\ UNCHANGED offStreamVars

\* anthropic.js: one pass of the for-await loop of stream(). The vendor opens
\* a tool_use block, sends its input as input_json_delta events and closes it
\* when the input is complete; text comes between blocks
AnthropicEvent ==
    /\ stream.at = "open"
    /\ stream.provider = "anthropic"
    /\ stream.events < MaxEvents
    /\ LET cur == stream.currentToolCall
       IN \/ \* content_block_start of type tool_use
             /\ cur = NoCall
             /\ Len(stream.toolCalls) < MaxToolCalls
             /\ stream' = [stream EXCEPT
                    !.events = @ + 1,
                    !.currentToolCall =
                        ToolCall(Len(stream.toolCalls) + 1, EmptyObject, "")]
          \/ \* content_block_delta of type input_json_delta: partial_json is
             \* read into a local and dropped
             /\ cur # NoCall
             /\ \E f \in ArgFragments :
                   stream' = [stream EXCEPT
                       !.events = @ + 1,
                       !.received[cur.id] = @ \o f]
          \/ \* content_block_stop
             /\ cur # NoCall
             /\ JSONparse(stream.received[cur.id]).ok
             /\ stream' = [stream EXCEPT
                    !.events = @ + 1,
                    !.toolCalls = Append(@, cur),
                    !.chunks = Append(@, ToolCallChunk(cur)),
                    !.currentToolCall = NoCall]
          \/ \* content_block_delta of type text_delta
             /\ cur = NoCall
             /\ \E c \in TextPieces :
                   stream' = [stream EXCEPT
                       !.events = @ + 1,
                       !.textContent = @ \o c,
                       !.chunks = Append(@, ContentChunk(c))]
    /\ UNCHANGED offStreamVars

\* anthropic.js: the stream ends after the last block was closed
AnthropicReturns ==
    /\ stream.at = "open"
    /\ stream.provider = "anthropic"
    /\ stream.currentToolCall = NoCall
    /\ stream' = [stream EXCEPT
           !.at = "settled",
           !.chunks = Append(@, DoneChunk),
           !.ret = ChatResponse(stream.textContent, stream.toolCalls)]
    /\ UNCHANGED offStreamVars

\* the position in the Map toolCalls of the entry with key index, 0 if none
MapIndex(toolCalls, index) ==
    IF \E i \in 1..Len(toolCalls) : toolCalls[i].id = index
    THEN CHOOSE i \in 1..Len(toolCalls) : toolCalls[i].id = index
    ELSE 0

\* openai.ts: one pass of the for-await loop of stream(): a chunk whose delta
\* has content, or a tool_calls entry for an index with an arguments piece
\* (which may be empty)
OpenAIChunk ==
    /\ stream.at = "open"
    /\ stream.provider = "openai"
    /\ stream.events < MaxEvents
    /\ \/ \E c \in TextPieces :
            stream' = [stream EXCEPT
                !.events = @ + 1,
                !.textContent = @ \o c,
                !.chunks = Append(@, ContentChunk(c))]
       \/ \E index \in ToolIds, f \in ArgFragments \cup {""} :
            LET had == MapIndex(stream.toolCalls, index)
                tcs == IF had = 0
                       THEN Append(stream.toolCalls, ToolCall(index, EmptyObject, ""))
                       ELSE stream.toolCalls
                at == IF had = 0 THEN Len(tcs) ELSE had
            IN stream' = [stream EXCEPT
                   !.events = @ + 1,
                   !.toolCalls = [tcs EXCEPT ![at].partial = @ \o f],
                   !.received[index] = @ \o f]
    /\ UNCHANGED offStreamVars

\* openai.ts: "Parse accumulated tool arguments": the calls whose text
\* parses, in Map order, with their parsed arguments; the others are skipped
RECURSIVE FinalToolCalls(_)
FinalToolCalls(tcs) ==
    IF tcs = <<>> THEN <<>>
    ELSE LET tc == Head(tcs)
             argsStr == IF tc.partial # "" THEN tc.partial ELSE "{}"
             parsed == JSONparse(argsStr)
         IN IF parsed.ok
            THEN <<ToolCall(tc.id, parsed.value, "")>> \o FinalToolCalls(Tail(tcs))
            ELSE FinalToolCalls(Tail(tcs))

\* an adapter that emits no chunk for the first tool call
ToolCallChunksButFirst(tcs) ==
    [i \in 1..(Len(tcs) - 1) |-> ToolCallChunk(tcs[i + 1])]

\* the tool_call chunks of a sequence of tool calls
ToolCallChunks(tcs) ==
    [i \in 1..Len(tcs) |-> ToolCallChunk(tcs[i])]

\* openai.ts: the stream ends; stream() parses, emits and returns
OpenAIReturns ==
    /\ stream.at = "open"
    /\ stream.provider = "openai"
    /\ LET final == FinalToolCalls(stream.toolCalls)
       IN stream' = [stream EXCEPT
              !.at = "settled",
              !.toolCalls = final,
              !.chunks = @ \o ToolCallChunks(final) \o <<DoneChunk>>,
              !.ret = ChatResponse(stream.textContent, final)]
    /\ UNCHANGED offStreamVars

\* openai.ts: chat() of a response with one tool call whose arguments string
\* is a: JSON.parse(tc.function.arguments) is not in a try block
OpenAIChat ==
    /\ stream.at = "idle"
    /\ \E a \in ArgStrings :
          stream' = [stream EXCEPT
              !.provider = "openai", !.api = "chat", !.at = "settled",
              !.received[1] = a,
              !.toolCalls = IF JSONparse(a).ok
                            THEN <<ToolCall(1, JSONparse(a).value, "")>>
                            ELSE <<>>,
              !.ret = IF JSONparse(a).ok
                      THEN ChatResponse("", <<ToolCall(1, JSONparse(a).value, "")>>)
                      ELSE ChatRejects]
    /\ UNCHANGED offStreamVars

\* google.ts: one part of a candidate of a chunk in the for-await loop of
\* stream(): a part with text, or a part with a functionCall, whose args are
\* an object
GooglePart ==
    /\ stream.at = "open"
    /\ stream.provider = "google"
    /\ stream.events < MaxEvents
    /\ \/ \E c \in TextPieces :
            stream' = [stream EXCEPT
                !.events = @ + 1,
                !.textContent = @ \o c,
                !.chunks = Append(@, ContentChunk(c))]
       \/ /\ Len(stream.toolCalls) < MaxToolCalls
          /\ \E a \in ValidJson :
               LET toolCall == ToolCall(Len(stream.toolCalls) + 1, a, "")
               IN stream' = [stream EXCEPT
                      !.events = @ + 1,
                      !.received[toolCall.id] = a,
                      !.toolCalls = Append(@, toolCall),
                      !.chunks = Append(@, ToolCallChunk(toolCall))]
    /\ UNCHANGED offStreamVars

\* google.ts: the stream ends; stream() emits done and returns
GoogleReturns ==
    /\ stream.at = "open"
    /\ stream.provider = "google"
    /\ stream' = [stream EXCEPT
           !.at = "settled",
           !.chunks = Append(@, DoneChunk),
           !.ret = ChatResponse(stream.textContent, stream.toolCalls)]
    /\ UNCHANGED offStreamVars

\* ollama.js: one line of the response body in stream(): a line with
\* message.content, a line with one tool call whose arguments are an object,
\* or a line JSON.parse throws on, which the catch block skips
OllamaLine ==
    /\ stream.at = "open"
    /\ stream.provider = "ollama"
    /\ stream.events < MaxEvents
    /\ \/ \E c \in TextPieces :
            stream' = [stream EXCEPT
                !.events = @ + 1,
                !.textContent = @ \o c,
                !.chunks = Append(@, ContentChunk(c))]
       \/ /\ Len(stream.toolCalls) < MaxToolCalls
          /\ \E a \in ValidJson :
               LET tc == ToolCall(Len(stream.toolCalls) + 1, a, "")
               IN stream' = [stream EXCEPT
                      !.events = @ + 1,
                      !.received[tc.id] = a,
                      !.toolCalls = Append(@, tc),
                      !.chunks = Append(@, ToolCallChunk(tc))]
       \/ stream' = [stream EXCEPT !.events = @ + 1, !.badLine = TRUE]
    /\ UNCHANGED offStreamVars

\* ollama.js: the body ends; stream() emits done and returns
OllamaReturns ==
    /\ stream.at = "open"
    /\ stream.provider = "ollama"
    /\ stream' = [stream EXCEPT
           !.at = "settled",
           !.chunks = Append(@, DoneChunk),
           !.ret = ChatResponse(stream.textContent, stream.toolCalls)]
    /\ UNCHANGED offStreamVars

----------------------------------------------------------------------------
(* The tool registry of tools/registry.ts: registerTool, initializeTools,   *)
(* getAllTools. A definition is its name and a description.                 *)

\* the definitions a process can hold
MaxDefinitions == 5
\* the catalog initializeTools registers (three of its 33 tools)
Catalog == <<"load_dataset", "memory_read", "memory_write">>
\* the names a caller of registerTool passes
ToolNames == {"load_dataset", "memory_write", "custom_tool"}
Descriptions == {"catalog", "other"}
Handlers == {"catalog", "other"}
NoHandler == "undefined"
AllToolNames == ToolNames \cup { Catalog[i] : i \in 1..Len(Catalog) }

Tool(name, description) == [name |-> name, description |-> description]

\* registry.ts: registerTool(tool, handler): what it makes of the array and
\* of the Map
registerTool(defs, handlers, tool, handler) ==
    [defs |-> Append(defs, tool),
     handlers |-> [handlers EXCEPT ![tool.name] = handler]]

\* registry.ts: initializeTools(): registerTool for each tool of the catalog
RECURSIVE registerAll(_, _, _)
registerAll(defs, handlers, names) ==
    IF names = <<>> THEN [defs |-> defs, handlers |-> handlers]
    ELSE LET r == registerTool(defs, handlers, Tool(Head(names), "catalog"), "catalog")
         IN registerAll(r.defs, r.handlers, Tail(names))

\* registry.ts: getAllTools()
getAllTools == TOOL_DEFINITIONS

\* a caller registers a tool
RegisterTool ==
    /\ Len(TOOL_DEFINITIONS) < MaxDefinitions
    /\ \E name \in ToolNames, d \in Descriptions, h \in Handlers :
          LET r == registerTool(TOOL_DEFINITIONS, TOOL_HANDLERS, Tool(name, d), h)
          IN /\ TOOL_DEFINITIONS' = r.defs
             /\ TOOL_HANDLERS' = r.handlers
    /\ UNCHANGED offRegistryVars

\* a caller calls the exported initializeTools() again
InitializeTools ==
    /\ Len(TOOL_DEFINITIONS) < MaxDefinitions
    /\ LET r == registerAll(TOOL_DEFINITIONS, TOOL_HANDLERS, Catalog)
       IN /\ TOOL_DEFINITIONS' = r.defs
          /\ TOOL_HANDLERS' = r.handlers
    /\ UNCHANGED offRegistryVars

\* the module has been loaded: empty array and Map, then initializeTools()
RegistryLoaded ==
    LET r == registerAll(<<>>, [n \in AllToolNames |-> NoHandler], Catalog)
    IN /\ TOOL_DEFINITIONS = r.defs
       /\ TOOL_HANDLERS = r.handlers

----------------------------------------------------------------------------
(* The memory tools of tools/memory.ts: memoryRead, memoryWrite,            *)
(* memorySearch. A string is a sequence of characters; an object is a       *)
(* function from its own keys to their values.                              *)

Chars == {"a", "A", "b"}
\* the longest query of a search
MaxQueryLen == 2
RECURSIVE StringsOfLen(_)
StringsOfLen(n) ==
    IF n = 0 THEN {<<>>}
    ELSE { Append(t, c) : t \in StringsOfLen(n - 1), c \in Chars }
Queries == UNION { StringsOfLen(n) : n \in 0..MaxQueryLen }

\* the key '__proto__'
ProtoKey == <<"_", "_", "p", "r", "o", "t", "o", "_", "_">>
\* the keys and values the model passes to memory_write
Keys == {<<"A", "b">>, <<"b">>, ProtoKey}
Values == {<<"a">>, <<"b", "A">>}

\* {}
EmptyMemory == [k \in {} |-> <<>>]
\* what reading a property that is not an own string property gives
Undefined == <<"undefined">>

\* obj[key] = value on an ordinary object: '__proto__' is the accessor of
\* Object.prototype, whose setter ignores a value that is not an object
SetProperty(obj, key, value) ==
    IF key = ProtoKey THEN obj
    ELSE [k \in DOMAIN obj \cup {key} |-> IF k = key THEN value ELSE obj[k]]

\* obj[key] where a string is expected
GetProperty(obj, key) ==
    IF key \in DOMAIN obj THEN obj[key] ELSE Undefined

\* String.prototype.toLowerCase
LowerChar(c) == IF c = "A" THEN "a" ELSE c
toLowerCase(str) == [i \in 1..Len(str) |-> LowerChar(str[i])]

\* String.prototype.includes
includes(str, q) ==
    \E i \in 0..Len(str) :
        /\ i + Len(q) <= Len(str)
        /\ SubSeq(str, i + 1, i + Len(q)) = q

\* memory.json: absent, not JSON, or the JSON text of an object
AbsentFile == [state |-> "absent", data |-> EmptyMemory]
CorruptFile == [state |-> "corrupt", data |-> EmptyMemory]
JsonFile(obj) == [state |-> "json", data |-> obj]

\* what a memory tool returns; hasMemory is FALSE where the object has no
\* memory key
MemoryResult(success, hasMemory, memory) ==
    [success |-> success, hasMemory |-> hasMemory, memory |-> memory]

\* memory.ts: memoryRead()
memoryRead(file) ==
    IF file.state = "absent" THEN MemoryResult(TRUE, TRUE, EmptyMemory)
    ELSE IF file.state = "json" THEN MemoryResult(TRUE, TRUE, file.data)
    ELSE \* JSON.parse throws: { success: false, error }
         MemoryResult(FALSE, FALSE, EmptyMemory)

\* a write that starts from an empty object instead of the stored one
memoryWriteFresh(file, key, value) ==
    JsonFile(SetProperty(EmptyMemory, key, value))

\* memory.ts: memoryWrite(args): the file it leaves
memoryWrite(file, key, value) ==
    LET memory == IF file.state = "json" THEN file.data ELSE EmptyMemory
    IN JsonFile(SetProperty(memory, key, value))

\* a search that does not lower the case of the entries
memorySearchCaseSensitive(file, query) ==
    LET r == memoryRead(file)
        memory == IF r.hasMemory THEN r.memory ELSE EmptyMemory
        results == { k \in DOMAIN memory :
                       \/ includes(k, toLowerCase(query))
                       \/ includes(memory[k], toLowerCase(query)) }
    IN [k \in results |-> memory[k]]

\* memory.ts: memorySearch(args): the results object
memorySearch(file, query) ==
    LET r == memoryRead(file)
        memory == IF r.hasMemory THEN r.memory ELSE EmptyMemory
        results == { k \in DOMAIN memory :
                       \/ includes(toLowerCase(k), toLowerCase(query))
                       \/ includes(toLowerCase(memory[k]), toLowerCase(query)) }
    IN [k \in results |-> memory[k]]

NoMemCall == [op |-> "", key |-> <<>>, value |-> <<>>, query |-> <<>>]
NoMemLog ==
    [last |-> NoMemCall, prev |-> NoMemCall, before |-> AbsentFile,
     result |-> MemoryResult(FALSE, FALSE, EmptyMemory)]

\* the tool memory_write
MemoryWrite ==
    /\ \E key \in Keys, value \in Values :
          /\ memoryFile' = memoryWrite(memoryFile, key, value)
          /\ memLog' = [last |-> [NoMemCall EXCEPT !.op = "write", !.key = key,
                                                   !.value = value],
                        prev |-> memLog.last,
                        before |-> memoryFile,
                        result |-> MemoryResult(TRUE, FALSE, EmptyMemory)]
    /\ UNCHANGED offMemoryVars

\* the tool memory_read
MemoryRead ==
    /\ memLog.last.op # "read"
    /\ memLog' = [last |-> [NoMemCall EXCEPT !.op = "read"],
                  prev |-> memLog.last,
                  before |-> memoryFile,
                  result |-> memoryRead(memoryFile)]
    /\ UNCHANGED <<memoryFile, offMemoryVars>>

\* the tool memory_search
MemorySearch ==
    /\ \E query \in Queries :
          memLog' = [last |-> [NoMemCall EXCEPT !.op = "search", !.query = query],
                     prev |-> NoMemCall,
                     before |-> memoryFile,
                     result |-> MemoryResult(TRUE, TRUE,
                                             memorySearch(memoryFile, query))]
    /\ UNCHANGED <<memoryFile, offMemoryVars>>

----------------------------------------------------------------------------
(* The command line: index.ts, repl.js, the agent's constructor, config.ts *)

\* the REPL session of a process makes at most MaxCliRuns run() calls
MaxCliRuns == 2

\* PROVIDERS: the providers that need an API key, and the local one
KeyedProviders == {"anthropic", "openai"}
LocalProvider == "ollama"
CliProviders == KeyedProviders \cup {LocalProvider}
\* model ids
Models == {"m1", "m2"}
\* an option that was not given
Absent == ""

\* the environment of a process: the providers an API key is stored for, and
\* whether an Ollama server answers on localhost
Environments == [keys : SUBSET KeyedProviders, ollama : BOOLEAN]
\* the stored config
Configs == [provider : CliProviders, model : Models]
DEFAULT_CONFIG == [provider |-> "anthropic", model |-> "m1"]

\* getApiKey(provider): '' when no key is stored; a local provider needs none
getApiKey(env, provider) ==
    IF provider \notin CliProviders THEN ""
    ELSE IF provider = LocalProvider THEN "ollama"
    ELSE IF provider \in env.keys THEN "key"
    ELSE ""

\* checkApiKeys(): the providers reported as found
checkApiKeys(env) ==
    {p \in CliProviders :
        IF p = LocalProvider THEN env.ollama ELSE getApiKey(env, p) # ""}

\* saveConfig(partial): the given keys are stored
saveConfig(config, key, value) == [config EXCEPT ![key] = value]

\* constructor: options.provider || this.config.provider, and the same for
\* the model
providerName(options, config) ==
    IF options.provider # Absent THEN options.provider ELSE config.provider
modelName(options, config) ==
    IF options.model # Absent THEN options.model ELSE config.model

NoAgent == [provider |-> "", model |-> ""]
\* new PKPDBuilderAgent(options): throws when the provider has no API key and
\* is not local; otherwise the provider adapter is created with the model
PKPDBuilderAgent(options, config, env) ==
    IF getApiKey(env, providerName(options, config)) = ""
    THEN [threw |-> TRUE, agent |-> NoAgent]
    ELSE [threw |-> FALSE,
          agent |-> [provider |-> providerName(options, config),
                     model |-> modelName(options, config)]]

\* a provider call of run(): this.provider.chat or stream, made by the adapter
\* created at construction with the model it was given
ProviderCallFromConfig(agent, config) ==
    [provider |-> config.provider, model |-> config.model]
ProviderCall(agent, config) ==
    [provider |-> agent.provider, model |-> agent.model]

NoCli == [env |-> [keys |-> {}, ollama |-> FALSE], config |-> DEFAULT_CONFIG,
          command |-> "none", at |-> "shell", needed |-> "",
          agent |-> NoAgent, constructed |-> NoAgent, history |-> 0,
          runs |-> 0, providerCalls |-> {}, entered |-> {},
          lastRun |-> [config |-> DEFAULT_CONFIG, entered |-> {}],
          reported |-> FALSE, exitCode |-> -1]

\* pkpdbuilder (no command): startRepl(). With no provider found it prints
\* and returns, and the process ends with nothing left to do; the agent is
\* constructed outside any try, so a throwing constructor rejects the
\* action's promise, which nothing handles
StartRepl ==
    /\ cli.at = "shell"
    /\ LET options == [provider |-> Absent, model |-> Absent]
           made == PKPDBuilderAgent(options, cli.config, cli.env)
           started == [cli EXCEPT !.command = "repl",
                                  !.needed = providerName(options, cli.config)]
       IN  cli' =
             IF checkApiKeys(cli.env) = {}
             THEN [started EXCEPT !.at = "exited", !.reported = TRUE,
                                  !.exitCode = 0]
             ELSE IF made.threw
             THEN [started EXCEPT !.at = "exited", !.reported = TRUE,
                                  !.exitCode = 1]
             ELSE [started EXCEPT !.at = "prompt", !.agent = made.agent,
                                  !.constructed = made.agent]
    /\ UNCHANGED <<bridgeVars, offCliVars>>

\* pkpdbuilder ask <query> [-m model] [-p provider]: the constructor and
\* run() are inside one try, whose catch prints and calls process.exit(1)
AskCommand ==
    /\ cli.at = "shell"
    /\ \E p \in CliProviders \cup {Absent}, m \in Models \cup {Absent},
          resolves \in BOOLEAN :
         LET options == [provider |-> p, model |-> m]
             made == PKPDBuilderAgent(options, cli.config, cli.env)
             started == [cli EXCEPT !.command = "ask",
                                    !.needed = providerName(options, cli.config)]
         IN  cli' =
               IF made.threw
               THEN [started EXCEPT !.at = "exited", !.reported = TRUE,
                                    !.exitCode = 1]
               ELSE LET ran == [started EXCEPT
                                  !.agent = made.agent,
                                  !.constructed = made.agent,
                                  !.runs = 1,
                                  !.providerCalls =
                                      {ProviderCall(made.agent, cli.config)},
                                  !.at = "exited"]
                    IN  IF resolves
                        THEN [ran EXCEPT !.exitCode = 0]
                        ELSE [ran EXCEPT !.reported = TRUE, !.exitCode = 1]
    /\ UNCHANGED <<bridgeVars, offCliVars>>

\* /model <name>: the name is stored in the config
ReplModel ==
    /\ cli.at = "prompt"
    /\ \E args \in Models :
         cli' = [cli EXCEPT !.config = saveConfig(@, "model", args),
                            !.entered = @ \cup {"/model"}]
    /\ UNCHANGED <<bridgeVars, offCliVars>>

\* /provider <name>: the name is stored in the config
ReplProvider ==
    /\ cli.at = "prompt"
    /\ \E args \in CliProviders :
         cli' = [cli EXCEPT !.config = saveConfig(@, "provider", args),
                            !.entered = @ \cup {"/provider"}]
    /\ UNCHANGED <<bridgeVars, offCliVars>>

\* /clear: agent.clearHistory()
ReplClear ==
    /\ cli.at = "prompt"
    /\ cli' = [cli EXCEPT !.history = 0, !.entered = @ \cup {"/clear"}]
    /\ UNCHANGED <<bridgeVars, offCliVars>>

\* any other line: agent.run(line), whose provider call resolves or rejects;
\* the REPL prints an error and goes on
ReplRun ==
    /\ cli.at = "prompt"
    /\ cli.runs < MaxCliRuns
    /\ \E resolves \in BOOLEAN :
         cli' = [cli EXCEPT
                   !.runs = @ + 1,
                   !.history = IF resolves THEN @ + 2 ELSE @ + 1,
                   !.providerCalls = @ \cup {ProviderCall(cli.agent, cli.config)},
                   !.lastRun = [config |-> cli.config, entered |-> cli.entered],
                   !.reported = ~resolves]
    /\ UNCHANGED <<bridgeVars, offCliVars>>

\* /exit: process.exit(0)
ReplExit ==
    /\ cli.at = "prompt"
    /\ cli' = [cli EXCEPT !.at = "exited", !.exitCode = 0]
    /\ UNCHANGED <<bridgeVars, offCliVars>>

----------------------------------------------------------------------------
(* Memory requests served by one MCP server process: mcp-server.ts, memory.ts *)

\* the server has at most MaxWriters memory requests at a time
MaxWriters == 3
Writers == 1..MaxWriters

\* the keys initProject writes
ProjectNameKey == <<"project_name">>
DrugNameKey == <<"drug_name">>
\* args.project_name || 'Unnamed Project', and args.drug_name, absent or given
ProjectNames == {<<"b">>}
DrugNames == {<<>>, <<"a">>}

NoWriter == [tool |-> "", key |-> <<>>, value |-> <<>>, drug |-> <<>>,
             at |-> "idle"]

\* the keys of the memory_write requests that have arrived
RequestedKeys == { writers[j].key : j \in {i \in Writers : writers[i].tool = "memory_write"} }

\* a memory_write request arrives, with a key no other request has
MemoryWriteArrives(j) ==
    /\ writers[j].at = "idle"
    /\ \E key \in Keys \ RequestedKeys, value \in Values :
         writers' = [writers EXCEPT ![j] = [NoWriter EXCEPT
                        !.tool = "memory_write", !.key = key,
                        !.value = value, !.at = "arrived"]]
    /\ UNCHANGED <<memoryFile, bridgeVars, offWriterVars>>

\* an init_project request arrives
InitProjectArrives(j) ==
    /\ writers[j].at = "idle"
    /\ \A i \in Writers : writers[i].tool # "init_project"
    /\ \E name \in ProjectNames, drug \in DrugNames :
         writers' = [writers EXCEPT ![j] = [NoWriter EXCEPT
                        !.tool = "init_project", !.key = ProjectNameKey,
                        !.value = name, !.drug = drug, !.at = "arrived"]]
    /\ UNCHANGED <<memoryFile, bridgeVars, offWriterVars>>

\* mcpWrap calls memoryWrite(args), which has no await: it reads the file,
\* sets the entry, writes the file and returns in one turn of the event loop
MemoryWriteRuns(j) ==
    /\ writers[j].tool = "memory_write"
    /\ writers[j].at = "arrived"
    /\ memoryFile' = memoryWrite(memoryFile, writers[j].key, writers[j].value)
    /\ writers' = [writers EXCEPT ![j].at = "settled"]
    /\ UNCHANGED <<bridgeVars, offWriterVars>>

\* initProject(args) up to the end of its first memoryWrite, which it awaits
InitProjectRuns(j) ==
    /\ writers[j].tool = "init_project"
    /\ writers[j].at = "arrived"
    /\ memoryFile' = memoryWrite(memoryFile, ProjectNameKey, writers[j].value)
    /\ writers' = [writers EXCEPT ![j].at = "awaiting"]
    /\ UNCHANGED <<bridgeVars, offWriterVars>>

\* initProject(args) resumes: if (args.drug_name) the second memoryWrite
InitProjectResumes(j) ==
    /\ writers[j].tool = "init_project"
    /\ writers[j].at = "awaiting"
    /\ memoryFile' = IF writers[j].drug # <<>>
                     THEN memoryWrite(memoryFile, DrugNameKey, writers[j].drug)
                     ELSE memoryFile
    /\ writers' = [writers EXCEPT ![j].at = "settled"]
    /\ UNCHANGED <<bridgeVars, offWriterVars>>

\* mcpWrap resumes after await handler(args) and the response is sent
WriterResponds(j) ==
    /\ writers[j].at = "settled"
    /\ writers' = [writers EXCEPT ![j].at = "responded"]
    /\ UNCHANGED <<memoryFile, bridgeVars, offWriterVars>>

NoWriters == [j \in Writers |-> NoWriter]

\* no request is being served
ServerIdle == flights = [j \in Requests |-> NoFlight]

RestIdle ==
    /\ ServerIdle
    /\ stream = NoStream
    /\ RegistryLoaded
    /\ memoryFile = AbsentFile
    /\ memLog = NoMemLog
    /\ cli = NoCli
    /\ writers = NoWriters

InitBridge ==
    /\ maxIterations = DefaultMaxIterations
    /\ messages = <<>> /\ pc = "prompt" /\ iterations = 0 /\ finalResponse = 0
    /\ calls = <<>> /\ idx = 0 /\ lastExec = NoExec /\ turn = NoTurn
    /\ outcome = NoOutcome /\ console = "" /\ turns = 0 /\ asked = 0
    /\ rInstalled \in BOOLEAN
    /\ BridgeIdle
    /\ RestIdle

InitServer ==
    /\ AgentIdle
    /\ rInstalled = TRUE
    /\ BridgeIdle
    /\ RestIdle

NextServer ==
    \/ ClockTicks
    \/ \E j \in Requests : ServerRunRScript(j)
    \/ \E j \in Requests : ServerRunRCode(j)
    \/ \E j \in Requests : ServerRWritesResult(j)
    \/ \E j \in Requests : ServerCallback(j)

SpecServer == InitServer /\ [][NextServer]_vars

InitStream ==
    /\ AgentIdle
    /\ rInstalled = TRUE
    /\ BridgeIdle
    /\ RestIdle

NextStream ==
    \/ StreamOpens
    \/ AnthropicEvent
    \/ AnthropicReturns
    \/ OpenAIChunk
    \/ OpenAIReturns
    \/ OpenAIChat
    \/ GooglePart
    \/ GoogleReturns
    \/ OllamaLine
    \/ OllamaReturns

SpecStream == InitStream /\ [][NextStream]_vars

InitRegistry ==
    /\ AgentIdle
    /\ rInstalled = TRUE
    /\ BridgeIdle
    /\ RestIdle

NextRegistry ==
    \/ RegisterTool
    \/ InitializeTools

SpecRegistry == InitRegistry /\ [][NextRegistry]_vars

\* the memory file of the project directory is absent or was left damaged
InitMemory ==
    /\ AgentIdle
    /\ rInstalled = TRUE
    /\ BridgeIdle
    /\ ServerIdle
    /\ stream = NoStream
    /\ RegistryLoaded
    /\ memoryFile \in {AbsentFile, CorruptFile}
    /\ memLog = NoMemLog
    /\ cli = NoCli
    /\ writers = NoWriters

NextMemory ==
    \/ MemoryWrite
    \/ MemoryRead
    \/ MemorySearch

SpecMemory == InitMemory /\ [][NextMemory]_vars

\* a process is started in some environment with some stored config
InitCli ==
    /\ AgentIdle
    /\ rInstalled = TRUE
    /\ BridgeIdle
    /\ ServerIdle
    /\ stream = NoStream
    /\ RegistryLoaded
    /\ memoryFile = AbsentFile
    /\ memLog = NoMemLog
    /\ \E env \in Environments, config \in Configs :
         cli = [NoCli EXCEPT !.env = env, !.config = config]
    /\ writers = NoWriters

NextCli ==
    \/ StartRepl
    \/ AskCommand
    \/ ReplModel
    \/ ReplProvider
    \/ ReplClear
    \/ ReplRun
    \/ ReplExit

SpecCli == InitCli /\ [][NextCli]_vars

\* the server starts in a project whose memory file is absent, damaged or
\* holds an object
InitWriters ==
    /\ AgentIdle
    /\ rInstalled = TRUE
    /\ BridgeIdle
    /\ ServerIdle
    /\ stream = NoStream
    /\ RegistryLoaded
    /\ memoryFile \in {AbsentFile, CorruptFile}
                      \cup {JsonFile(SetProperty(EmptyMemory, k, v)) :
                               k \in Keys \ {ProtoKey}, v \in Values}
    /\ memLog = NoMemLog
    /\ cli = NoCli
    /\ writers = NoWriters

NextWriters ==
    \/ \E j \in Writers : MemoryWriteArrives(j)
    \/ \E j \in Writers : InitProjectArrives(j)
    \/ \E j \in Writers : MemoryWriteRuns(j)
    \/ \E j \in Writers : InitProjectRuns(j)
    \/ \E j \in Writers : InitProjectResumes(j)
    \/ \E j \in Writers : WriterResponds(j)

SpecWriters == InitWriters /\ [][NextWriters]_vars

NextBridge ==
    \/ RunRScriptMcp
    \/ RunRScriptArgv
    \/ RWritesResult
    \/ ProcessEnds
    \/ BridgeResumes

SpecBridge == InitBridge /\ [][NextBridge]_vars

\* new PKPDBuilderAgent(options): the REPL is at its prompt
Init ==
    /\ \E opt \in 0..MaxIterOpt : maxIterations = ResolveMaxIterations(opt)
    /\ messages = <<>>
    /\ pc = "prompt"
    /\ iterations = 0
    /\ finalResponse = 0
    /\ calls = <<>>
    /\ idx = 0
    /\ lastExec = NoExec
    /\ turn = NoTurn
    /\ outcome = NoOutcome
    /\ console = ""
    /\ turns = 0
    /\ asked = 0
    /\ rInstalled = TRUE
    /\ BridgeIdle
    /\ RestIdle

Next ==
    \/ RunStart
    \/ ProviderResolves
    \/ ProviderRejects
    \/ ToolSettles
    \/ ReplReports
    \/ ClearHistory

Spec == Init /\ [][Next]_vars

\* the provider call and the tool call a turn awaits settle, and the REPL goes on
LiveSpec ==
    /\ Init /\ [][Next]_vars
    /\ WF_vars(ProviderResolves \/ ProviderRejects)
    /\ WF_vars(ToolSettles)
    /\ WF_vars(ReplReports)

----------------------------------------------------------------------------
(* Properties of the agent loop and the registry *)

IsPrefix(s, t) == Len(s) <= Len(t) /\ SubSeq(t, 1, Len(s)) = s

\* the most recent non-empty text among the responses rs, 0 ('') if none
LastText(rs) ==
    LET nz == { i \in DOMAIN rs : rs[i].content # 0 }
    IN IF nz = {} THEN 0
       ELSE rs[CHOOSE i \in nz : \A j \in nz : j <= i].content

\* how each message of a history reads
Roles(msgs) ==
    [i \in DOMAIN msgs |->
        IF msgs[i].content.kind = "tool" THEN "tool-result-as-user"
        ELSE msgs[i].role]

\* C1: whenever run() is not inside the for-of loop (the next provider call is
\* awaited, or the turn is over), executeTool has been called once for each
\* tool call of the last response, in the order returned, and one result per
\* call has been appended in that order; before a further provider call of
\* the turn these results are the last messages of the history.
C1_EveryCallExecutedAndAppended ==
    pc # "tool" =>
        /\ turn.execLog = calls
        /\ turn.appended = calls
        /\ (pc = "provider" /\ turn.providerCalls > 1) =>
              \A i \in DOMAIN calls :
                 LET m == messages[Len(messages) - Len(calls) + i]
                 IN m.role = "user" /\ m.content.kind = "tool"
                    /\ m.content.name = calls[i]

\* C2: executeTool never rejects, whatever the handler does, and run() never
\* ends with an exception that comes out of a tool call.
C2_ExecuteToolNeverRejects ==
    /\ lastExec.res.kind # "rejected"
    /\ ~(outcome.kind = "rejected" /\ outcome.error = "TypeError")

\* C3: executeTool called with a name that is no key of the registry resolves
\* to { success: false, error: "Unknown tool: <name>" } and invokes no handler.
C3_UnknownToolResult ==
    (lastExec.name # "" /\ lastExec.name \notin Registered) =>
        /\ lastExec.res = Resolved(FALSE, "Unknown tool: " \o lastExec.name)
        /\ ~lastExec.invoked

C3_Witness ==
    /\ lastExec.name = "nope"
    /\ pc = "provider"
    /\ messages[Len(messages)].content.name = "nope"

\* C4: a turn makes at most maxIterations provider calls (10 unless the
\* option sets another positive number), it has made at least one when run()
\* ends, and a run() that awaits a provider or a tool call ends.
C4_ProviderCallsBounded ==
    /\ [](maxIterations \in (1..MaxIterOpt) \cup {DefaultMaxIterations})
    /\ [](turn.providerCalls <= maxIterations)
    /\ [](pc \in {"returned", "threw"} => turn.providerCalls >= 1)
    /\ (pc \in {"provider", "tool"}) ~> (pc \in {"returned", "threw"})

AllRoundsCalledTools ==
    /\ Len(turn.responses) = maxIterations
    /\ \A i \in DOMAIN turn.responses : turn.responses[i].tool_calls # <<>>

C4_Witness ==
    /\ pc = "returned"
    /\ maxIterations = DefaultMaxIterations
    /\ turn.providerCalls = DefaultMaxIterations
    /\ AllRoundsCalledTools

C6_FinalResponseReturnedAsIs ==
    (/\ pc = "returned"
     /\ turn.responses # <<>>
     /\ turn.responses[Len(turn.responses)].tool_calls = <<>>) =>
        outcome = ReturnedOutcome([text |-> LastText(turn.responses),
                                   warning |-> FALSE])

\* run() has returned from a turn on an empty history in which the provider
\* first asked for exactly one tool call and then answered with plain text
OneToolThenText ==
    /\ pc = "returned"
    /\ turn.start = 1
    /\ Len(turn.responses) = 2
    /\ Len(turn.responses[1].tool_calls) = 1
    /\ turn.responses[2].tool_calls = <<>>
    /\ turn.responses[2].content # 0

\* C7 as stated: the history then holds exactly the 4 messages user,
\* assistant, tool-result-as-user, assistant.
C7_FourMessages ==
    OneToolThenText =>
        Roles(messages) = <<"user", "assistant", "tool-result-as-user", "assistant">>

\* C7 as amended: the history holds these 4 messages when the first response
\* has text, and the 3 messages user, tool-result-as-user, assistant when the
\* first response's text is empty.
C7_FourMessagesOrThree ==
    OneToolThenText =>
        Roles(messages) =
            IF turn.responses[1].content # 0
            THEN <<"user", "assistant", "tool-result-as-user", "assistant">>
            ELSE <<"user", "tool-result-as-user", "assistant">>

C7_Witness ==
    /\ OneToolThenText
    /\ turn.responses[1].content = 0
    /\ Len(messages) = 3

\* C8 as stated: every operation leaves the history it found as a prefix of
\* the history it leaves.
C8_AppendOnly ==
    [][IsPrefix(messages, messages')]_vars

\* C8 as amended: run, addUserMessage and addAssistantMessage leave the
\* history they found as a prefix of the history they leave; clearHistory
\* leaves the empty history.
C8_AppendOnlyButClear ==
    [][IF ClearHistory THEN messages' = <<>>
       ELSE IsPrefix(messages, messages')]_vars

C8_Witness ==
    /\ pc = "returned"
    /\ turn.start = 2
    /\ Len(messages) >= 4

\* C9: once a provider call of a turn has rejected, run() has rejected with
\* that error and the turn makes no provider call and runs no tool any more;
\* the REPL prints the error and is back at its prompt.
C9_ProviderRejectionEndsTurn ==
    turn.providerRejected =>
        /\ pc \in {"threw", "prompt"}
        /\ outcome = RejectedOutcome(ProviderError)
        /\ pc = "prompt" => console = "Error: " \o ProviderError

C9_Witness ==
    /\ turn.providerRejected
    /\ pc = "prompt"
    /\ turn.providerCalls = 2
    /\ turn.appended # <<>>

----------------------------------------------------------------------------
(* Properties of the R bridges *)

\* C10: once runRScript has returned, neither the argument file nor the
\* result file of that invocation exists, on either bridge.
C10_TempFilesRemoved ==
    (bpc = "returned" /\ inv.argsFile # NoPath) =>
        /\ ~existsSync(files, inv.argsFile)
        /\ ~existsSync(files, inv.resultFile)

\* C11: runRScript called with a script that does not exist returns
\* { success: false, error: "R script not found: <name>" } and has neither
\* looked for the interpreter, nor created a temp file, nor spawned a process.
C11_MissingScriptFailsFirst ==
    (bpc = "returned" /\ inv.script \notin ExistingScripts) =>
        /\ ret = Envelope(FALSE, "R script not found: " \o inv.script, "", "")
        /\ ~inv.lookedUp
        /\ inv.argsFile = NoPath /\ inv.resultFile = NoPath
        /\ inv.how = ""

\* the messages of a run that completed without structured output
CompletedMessages ==
    {"Script completed (no structured output).", "Script completed."}

\* the process exited with code 0 and left no result file that parses
NoStructuredOutput ==
    /\ bpc = "returned"
    /\ inv.how = "exit0"
    /\ ret.result # "parsed"

\* C12: when the R process exits successfully but the result file is absent
\* or is not JSON, runRScript returns success: true with a message that the
\* script completed without structured output; it does not return a failure.
C12_SoftSuccessWithMessage ==
    NoStructuredOutput =>
        /\ ret.kind = "resolved"
        /\ ret.success
        /\ ret.message \in CompletedMessages

\* C13: when the R process exits with a non-zero code or is killed by the
\* timeout, runRScript resolves to { success: false, error } with a non-empty
\* error (stderr or the failure message), no message and no result, whatever
\* the result file contains: the two failures have the same shape.
C13_FailureEnvelope ==
    (bpc = "returned" /\ inv.how \in {"nonzero", "timeout"}) =>
        /\ ret.kind = "resolved"
        /\ ~ret.success
        /\ ret.error \in (Stderrs \ {""}) \cup {"Command failed", "Command failed (killed)"}
        /\ ret.message = "" /\ ret.result = ""

C13_Witness ==
    /\ bpc = "returned"
    /\ inv.bridge = "mcp"
    /\ inv.how = "timeout"
    /\ inv.wrote
    /\ ~ret.success

----------------------------------------------------------------------------
(* Properties of the MCP server's concurrent bridge calls *)

\* C14: any two invocations of the bridge (runRScript or runRCode), also two
\* started in the same millisecond, use different temp file paths.
C14_TempPathsDisjoint ==
    \A j, k \in Requests :
        (j # k /\ flights[j].fn # "" /\ flights[k].fn # "") =>
            TempPaths(flights[j]) \cap TempPaths(flights[k]) = {}

----------------------------------------------------------------------------
(* Properties of the provider adapters *)

\* the tool calls a call has handed over, through onChunk or in its response
Surfaced ==
    { stream.chunks[i].tool_call :
        i \in { n \in 1..Len(stream.chunks) : stream.chunks[n].type = "tool_call" } }
    \cup { stream.ret.tool_calls[i] : i \in 1..Len(stream.ret.tool_calls) }

\* C15: each ToolCall that stream() surfaces, through onChunk or in the
\* returned tool_calls, has as arguments the JSON object that the argument
\* fragments received for that call make up together.
C15_SurfacedArgumentsComplete ==
    \A tc \in Surfaced :
        (stream.api = "stream" /\ stream.received[tc.id] # "") =>
            /\ JSONparse(stream.received[tc.id]).ok
            /\ tc.arguments = JSONparse(stream.received[tc.id]).value

\* the vendor sent a tool call whose argument text is not JSON, or a line
\* that is not JSON
Malformed ==
    \/ stream.badLine
    \/ \E id \in ToolIds :
          /\ stream.received[id] # ""
          /\ ~JSONparse(stream.received[id]).ok

\* C16: a call that was sent a malformed vendor payload rejects; it does not
\* return a ChatResponse as if the payload had not been sent.
C16_MalformedPayloadRejects ==
    (stream.at = "settled" /\ Malformed) => stream.ret.kind = "rejected"

----------------------------------------------------------------------------
(* Properties of the tool registry *)

\* C17: after any sequence of registerTool and initializeTools calls the
\* names of the definitions getAllTools() returns are pairwise distinct.
C17_ToolNamesDistinct ==
    \A i, j \in 1..Len(getAllTools) :
        i # j => getAllTools[i].name # getAllTools[j].name

----------------------------------------------------------------------------
(* Properties of the memory tools *)

\* C18: memory_read called right after memory_write(key, value) returns a
\* memory object whose entry for key is value, and a second identical
\* memory_write(key, value) leaves the stored memory object unchanged.
C18_WriteThenRead ==
    /\ (memLog.last.op = "read" /\ memLog.prev.op = "write") =>
           /\ memLog.result.success
           /\ memLog.result.hasMemory
           /\ GetProperty(memLog.result.memory, memLog.prev.key) = memLog.prev.value
    /\ (memLog.last.op = "write" /\ memLog.prev = memLog.last) =>
           memoryFile = memLog.before

\* a and b are the same letter, whatever their case
SameLetter(a, b) ==
    \/ a = b
    \/ {a, b} = {"a", "A"}

\* q occurs in str when case is ignored
ContainsIgnoringCase(str, q) ==
    \E i \in 0..Len(str) :
        /\ i + Len(q) <= Len(str)
        /\ \A n \in 1..Len(q) : SameLetter(str[i + n], q[n])

\* C19: memory_search(query) returns exactly the entries of the stored
\* memory whose key or value contains query when case is ignored.
C19_SearchExact ==
    memLog.last.op = "search" =>
        LET stored == memLog.before.data
            found == memLog.result.memory
        IN /\ memLog.result.success
           /\ DOMAIN found =
                 { k \in DOMAIN stored :
                     \/ ContainsIgnoringCase(k, memLog.last.query)
                     \/ ContainsIgnoringCase(stored[k], memLog.last.query) }
           /\ \A k \in DOMAIN found : found[k] = stored[k]

\* a search of two entries that finds one by its key in another case and
\* leaves the other out
C19_Witness ==
    /\ memLog.last.op = "search"
    /\ memLog.last.query = <<"a", "b">>
    /\ DOMAIN memLog.before.data = {<<"A", "b">>, <<"b">>}
    /\ memLog.before.data[<<"b">>] = <<"b", "A">>
    /\ DOMAIN memLog.result.memory = {<<"A", "b">>}

----------------------------------------------------------------------------
(* Properties of the tool result envelope *)

\* C20: every value a tool handler returns is an object with a boolean
\* success key; load_dataset returns one on every outcome of the R bridge.
C20_ResultHasSuccessKey ==
    toolResult.kind = "resolved" => toolResult.hasSuccess

----------------------------------------------------------------------------
(* Further properties of the agent loop and of the REPL *)

\* C21: a failed tool result ({ success: false, error }) is appended to the
\* history only; run() never writes it to onStream.
C21_FailedResultNotStreamed ==
    \A i \in 1..Len(turn.streamed) : turn.streamed[i].success

\* C22: when the provider the command would use has no API key, the process
\* ends having reported the problem and with a non-zero exit code.
C22_NoKeyExitsNonZero ==
    (cli.at = "exited" /\ getApiKey(cli.env, cli.needed) = "")
        => (cli.reported /\ cli.exitCode # 0)

AssistantCount(msgs) ==
    Cardinality({i \in DOMAIN msgs : msgs[i].role = "assistant"})

\* C23: a provider round appends an assistant message, holding the round's
\* response text, exactly when that text is non-empty; no other step appends
\* an assistant message.
C23_AssistantIffText ==
    [][IF ProviderResolves
       THEN LET r == turn'.responses[Len(turn'.responses)]
            IN  messages' =
                  IF r.content # 0
                  THEN Append(messages, [role |-> "assistant",
                                         content |-> TextContent(r.content)])
                  ELSE messages
       ELSE AssistantCount(messages') <= AssistantCount(messages)]_vars

\* a turn of two rounds has returned: the first response had tool calls and
\* no text, the second had text, and the turn left one assistant message
C23_Witness ==
    /\ pc = "returned"
    /\ Len(turn.responses) = 2
    /\ turn.responses[1].content = 0
    /\ turn.responses[2].content # 0
    /\ AssistantCount(SubSeq(messages, turn.start, Len(messages))) = 1

\* C24: with no Rscript executable to be found, runRScript of an existing
\* script fails with the error that the interpreter was not found, and has
\* neither written a temp file nor spawned a process.
C24_NoInterpreterFailsFast ==
    (bpc = "returned" /\ ~rInstalled /\ inv.script \in ExistingScripts) =>
        /\ ~ret.success
        /\ ret.error = "Rscript not found. Install R from https://cran.r-project.org"
        /\ inv.argsFile = NoPath /\ inv.resultFile = NoPath
        /\ inv.how = ""

\* C26: memory_write(key, value) on a file that holds a JSON object changes
\* only the entry for key: every other key of the object is there afterwards
\* with the value it had, and no key other than key is new.
C26_WriteFrame ==
    (memLog.last.op = "write" /\ memLog.before.state = "json") =>
        LET old == memLog.before.data
            new == memoryFile.data
        IN /\ memoryFile.state = "json"
           /\ \A k \in DOMAIN old \ {memLog.last.key} :
                 k \in DOMAIN new /\ new[k] = old[k]
           /\ DOMAIN new \subseteq DOMAIN old \cup {memLog.last.key}

\* a write that replaced the value of one of two stored entries
C26_Witness ==
    /\ memLog.last.op = "write"
    /\ memLog.before.state = "json"
    /\ memLog.last.key \in DOMAIN memLog.before.data
    /\ memLog.before.data[memLog.last.key] # memLog.last.value
    /\ Cardinality(DOMAIN memLog.before.data) >= 2
    /\ memoryFile.data[memLog.last.key] = memLog.last.value

\* all memory requests that arrived have been answered
WritersDone ==
    \A j \in Writers : writers[j].at \in {"idle", "responded"}

\* C30: once concurrent memory_write calls of one process on distinct keys
\* have all completed, the file holds every one of their keys with the value
\* written: no update is lost.
C30_NoLostUpdate ==
    WritersDone =>
        \A j \in Writers :
            writers[j].tool = "memory_write" =>
                /\ memoryFile.state = "json"
                /\ GetProperty(memoryFile.data, writers[j].key) = writers[j].value

\* the same for keys other than '__proto__'
NoLostUpdateOfOrdinaryKeys ==
    WritersDone =>
        \A j \in Writers :
            (writers[j].tool = "memory_write" /\ writers[j].key # ProtoKey) =>
                /\ memoryFile.state = "json"
                /\ GetProperty(memoryFile.data, writers[j].key) = writers[j].value

\* the texts of the content chunks of a sequence of chunks, joined in order
RECURSIVE JoinedContent(_)
JoinedContent(chunks) ==
    IF chunks = <<>> THEN ""
    ELSE (IF Head(chunks).type = "content" THEN Head(chunks).content ELSE "")
            \o JoinedContent(Tail(chunks))

\* C27: when stream() of an adapter returns, the returned content is the
\* in-order concatenation of the content chunks given to onChunk, every
\* returned tool call was given to onChunk as a tool_call chunk, and the one
\* done chunk is the last chunk.
C27_ChunksMatchReturn ==
    (stream.api = "stream" /\ stream.ret.kind = "resolved") =>
        /\ stream.ret.content = JoinedContent(stream.chunks)
        /\ \A i \in DOMAIN stream.ret.tool_calls :
              \E k \in DOMAIN stream.chunks :
                  stream.chunks[k] = ToolCallChunk(stream.ret.tool_calls[i])
        /\ stream.chunks # <<>>
        /\ \A k \in DOMAIN stream.chunks :
              stream.chunks[k].type = "done" <=> k = Len(stream.chunks)

\* stream() of the OpenAI adapter has returned the text "ab", sent in two
\* pieces, and two tool calls
C27_Witness ==
    /\ stream.provider = "openai"
    /\ stream.ret.kind = "resolved"
    /\ stream.ret.content = "ab"
    /\ Len(stream.ret.tool_calls) = 2
    /\ Len(stream.chunks) = 5

\* the same of the Google adapter and of the Ollama adapter
GoogleStreamWitness ==
    /\ stream.provider = "google"
    /\ stream.ret.kind = "resolved"
    /\ stream.ret.content = "ba"
    /\ Len(stream.ret.tool_calls) = 2
OllamaStreamWitness ==
    /\ stream.provider = "ollama"
    /\ stream.ret.kind = "resolved"
    /\ stream.ret.content = "ab"
    /\ Len(stream.ret.tool_calls) = 2

====
